---- MODULE Spec2Model ----
(***************************************************************************)
(* Open-data API (src/main.py, src/app/services/monument.py): a FastAPI    *)
(* application whose handlers each run one query through a request-scoped  *)
(* session and shape the rows into a response.                             *)
(*                                                                         *)
(* Spec          the HTTP surface: concurrent requests are routed,         *)
(*               validated, given a session, run their handler and         *)
(*               release the session.                                      *)
(* SpecMonument  the service function get_monument_by_object_id applied    *)
(*               to bounded contents of the three monument tables.         *)
(***************************************************************************)
EXTENDS Integers, Sequences, FiniteSets, TLC

\* ------------------------------------------------------------------------
\* Bounds
\* ------------------------------------------------------------------------
\* longest table of a data snapshot
MaxRows == 2
\* number of requests that can be in flight at the same time (requests share
\* nothing but the read-only snapshot)
MaxInFlight == 1
\* most rows of sh_monument_x_reason in a snapshot of the monument tables
MaxLinks == 2

\* ------------------------------------------------------------------------
\* Route tables, one per APIRouter, in the order of the decorators.
\* path is the decorator's path split at '/', params are the handler's typed
\* parameters (the session dependency aside), fields are the keyword
\* arguments of the schema call of a list comprehension: <<shape field,
\* row attribute>>.
\* ------------------------------------------------------------------------
app_routes ==
  <<
    [line |-> 43, path |-> <<"">>, name |-> "home_redirect",
     params |-> <<>>,
     fields |-> {}],
    [line |-> 48, path |-> <<"docs">>, name |-> "swagger_ui_html",
     params |-> <<>>,
     fields |-> {}]
  >>

router5_routes ==
  <<
    [line |-> 58, path |-> <<"parcel">>, name |-> "get_parcel_meta",
     params |-> <<<<"lat", "float">>, <<"lng", "float">>>>,
     fields |-> {}]
  >>

router4_routes ==
  <<
    [line |-> 70, path |-> <<"point">>, name |-> "get_biotop_meta",
     params |-> <<<<"lat", "float">>, <<"lng", "float">>>>,
     fields |-> {}],
    [line |-> 81, path |-> <<"origin">>, name |-> "get_biotop_origin",
     params |-> <<<<"code", "str">>>>,
     fields |-> {}]
  >>

router3_routes ==
  <<
    [line |-> 93, path |-> <<"details">>, name |-> "get_monuments",
     params |-> <<<<"object_id", "int">>>>,
     fields |-> {}]
  >>

router2_routes ==
  <<
    [line |-> 102, path |-> <<"meta">>, name |-> "get_accident_meta",
     params |-> <<>>,
     fields |-> {}],
    [line |-> 110, path |-> <<"details">>, name |-> "get_accident_details_by_city",
     params |-> <<<<"query", "str">>>>,
     fields |-> {}]
  >>

router1_routes ==
  <<
    [line |-> 119, path |-> <<"meta">>, name |-> "get_demographics_meta",
     params |-> <<>>,
     fields |-> {}],
    [line |-> 128, path |-> <<"details">>, name |-> "get_district_details",
     params |-> <<>>,
     fields |-> {}],
    [line |-> 137, path |-> <<"districts", "">>, name |-> "get_districts",
     params |-> <<>>,
     fields |-> {<<"district_id", "id">>, <<"district_name", "name">>}],
    [line |-> 145, path |-> <<"{district_id}">>, name |-> "get_district",
     params |-> <<<<"district_id", "int">>>>,
     fields |-> {}],
    [line |-> 157, path |-> <<"household", "types">>, name |-> "get_household_types",
     params |-> <<>>,
     fields |-> {<<"household_id", "id">>, <<"household_type", "label">>}],
    [line |-> 165, path |-> <<"residents", "agegroups">>, name |-> "get_residents_by_age_groups",
     params |-> <<>>,
     fields |-> {<<"year", "year">>, <<"age_under_18", "age_under_18">>, <<"age_18_to_under_30", "age_18_to_under_30">>, <<"age_30_to_under_45", "age_30_to_under_45">>, <<"age_45_to_under_65", "age_45_to_under_65">>, <<"age_65_to_under_80", "age_65_to_under_80">>, <<"age_80_and_above", "age_80_and_above">>}],
    [line |-> 176, path |-> <<"residents", "nongermans">>, name |-> "get_residents_non_germans",
     params |-> <<>>,
     fields |-> {<<"year", "year">>, <<"permanent_residency", "permanent_residency">>, <<"permanent_residency_according_eu_freedom_movement_act", "permanent_residency_according_eu_freedom_movement_act">>, <<"permanent_residency_third_country_nationality", "permanent_residency_third_country_nationality">>, <<"without_permanent_residency", "without_permanent_residency">>, <<"asylum_seeker", "asylum_seeker">>, <<"suspension_of_deportation", "suspension_of_deportation">>}],
    [line |-> 190, path |-> <<"residents", "debtcounseling">>, name |-> "get_residents_debt_counseling",
     params |-> <<>>,
     fields |-> {<<"year", "year">>, <<"household_type_id", "household_type_id">>, <<"residents", "residents">>}],
    [line |-> 198, path |-> <<"residents", "education", "support">>, name |-> "get_residents_education_support",
     params |-> <<>>,
     fields |-> {<<"year", "year">>, <<"educational_assistance", "educational_assistance">>, <<"parenting_counselor", "parenting_counselor">>, <<"pedagogical_family_assistance", "pedagogical_family_assistance">>, <<"child_day_care_facility", "child_day_care_facility">>, <<"full_time_care", "full_time_care">>, <<"residential_education", "residential_education">>, <<"integration_assistance", "integration_assistance">>, <<"additional_support", "additional_support">>}],
    [line |-> 215, path |-> <<"districts", "residents">>, name |-> "get_residents_by_districts",
     params |-> <<>>,
     fields |-> {<<"year", "year">>, <<"district_id", "district_id">>, <<"residents", "residents">>}],
    [line |-> 223, path |-> <<"{district_id}", "residents">>, name |-> "get_residents_by_district",
     params |-> <<<<"district_id", "int">>>>,
     fields |-> {<<"year", "year">>, <<"district_id", "district_id">>, <<"residents", "residents">>}],
    [line |-> 232, path |-> <<"districts", "residents", "births">>, name |-> "get_residents_births_by_districts",
     params |-> <<>>,
     fields |-> {<<"year", "year">>, <<"district_id", "district_id">>, <<"births", "births">>, <<"birth_rate", "birth_rate">>}],
    [line |-> 243, path |-> <<"{district_id}", "residents", "births">>, name |-> "get_residents_births_by_district",
     params |-> <<<<"district_id", "int">>>>,
     fields |-> {<<"year", "year">>, <<"district_id", "district_id">>, <<"births", "births">>, <<"birth_rate", "birth_rate">>}],
    [line |-> 254, path |-> <<"districts", "residents", "employed">>, name |-> "get_residents_employed_by_districts",
     params |-> <<>>,
     fields |-> {<<"year", "year">>, <<"district_id", "district_id">>, <<"residents", "residents">>, <<"employment_rate", "employment_rate">>}],
    [line |-> 265, path |-> <<"{district_id}", "residents", "employed">>, name |-> "get_residents_employed_by_district",
     params |-> <<<<"district_id", "int">>>>,
     fields |-> {<<"year", "year">>, <<"district_id", "district_id">>, <<"residents", "residents">>, <<"employment_rate", "employment_rate">>}],
    [line |-> 277, path |-> <<"districts", "residents", "ageratio">>, name |-> "get_residents_ageratio_by_districts",
     params |-> <<>>,
     fields |-> {<<"year", "year">>, <<"district_id", "district_id">>, <<"quotient", "quotient">>}],
    [line |-> 285, path |-> <<"{district_id}", "residents", "ageratio">>, name |-> "get_residents_ageratio_by_district",
     params |-> <<<<"district_id", "int">>>>,
     fields |-> {<<"year", "year">>, <<"district_id", "district_id">>, <<"quotient", "quotient">>}],
    [line |-> 294, path |-> <<"districts", "residents", "basicbenefits">>, name |-> "get_residents_basicbenefits_by_districts",
     params |-> <<>>,
     fields |-> {<<"year", "year">>, <<"district_id", "district_id">>, <<"male", "male">>, <<"female", "female">>, <<"age_18_to_under_65", "age_18_to_under_65">>, <<"age_65_and_above", "age_65_and_above">>}],
    [line |-> 307, path |-> <<"{district_id}", "residents", "basicbenefits">>, name |-> "get_residents_basicbenefits_by_district",
     params |-> <<<<"district_id", "int">>>>,
     fields |-> {<<"year", "year">>, <<"district_id", "district_id">>, <<"male", "male">>, <<"female", "female">>, <<"age_18_to_under_65", "age_18_to_under_65">>, <<"age_65_and_above", "age_65_and_above">>}],
    [line |-> 321, path |-> <<"districts", "residents", "ageunder18">>, name |-> "get_residents_ageunder18_by_districts",
     params |-> <<>>,
     fields |-> {<<"year", "year">>, <<"district_id", "district_id">>, <<"residents", "residents">>}],
    [line |-> 329, path |-> <<"{district_id}", "residents", "ageunder18">>, name |-> "get_residents_ageunder18_by_district",
     params |-> <<<<"district_id", "int">>>>,
     fields |-> {<<"year", "year">>, <<"district_id", "district_id">>, <<"residents", "residents">>}],
    [line |-> 338, path |-> <<"districts", "residents", "age18tounder65">>, name |-> "get_residents_age18tounder65_by_districts",
     params |-> <<>>,
     fields |-> {<<"year", "year">>, <<"district_id", "district_id">>, <<"residents", "residents">>}],
    [line |-> 346, path |-> <<"{district_id}", "residents", "age18tounder65">>, name |-> "get_residents_age18tounder65_by_district",
     params |-> <<<<"district_id", "int">>>>,
     fields |-> {<<"year", "year">>, <<"district_id", "district_id">>, <<"residents", "residents">>}],
    [line |-> 355, path |-> <<"districts", "residents", "age65andabove">>, name |-> "get_residents_age65andabove_by_districts",
     params |-> <<>>,
     fields |-> {<<"year", "year">>, <<"district_id", "district_id">>, <<"residents", "residents">>}],
    [line |-> 363, path |-> <<"{district_id}", "residents", "age65andabove">>, name |-> "get_residents_age65andabove_by_district",
     params |-> <<<<"district_id", "int">>>>,
     fields |-> {<<"year", "year">>, <<"district_id", "district_id">>, <<"residents", "residents">>}],
    [line |-> 372, path |-> <<"districts", "residents", "agegroups">>, name |-> "get_residents_agegroups_by_districts",
     params |-> <<>>,
     fields |-> {<<"year", "year">>, <<"district_id", "district_id">>, <<"age_under_18", "age_under_18">>, <<"age_18_to_under_30", "age_18_to_under_30">>, <<"age_30_to_under_45", "age_30_to_under_45">>, <<"age_45_to_under_65", "age_45_to_under_65">>, <<"age_65_to_under_80", "age_65_to_under_80">>, <<"age_80_and_above", "age_80_and_above">>, <<"age_0_to_under_7", "age_0_to_under_7">>, <<"age_60_and_above", "age_60_and_above">>}],
    [line |-> 389, path |-> <<"{district_id}", "residents", "agegroups">>, name |-> "get_residents_agegroups_by_district",
     params |-> <<<<"district_id", "int">>>>,
     fields |-> {<<"year", "year">>, <<"district_id", "district_id">>, <<"age_under_18", "age_under_18">>, <<"age_18_to_under_30", "age_18_to_under_30">>, <<"age_30_to_under_45", "age_30_to_under_45">>, <<"age_45_to_under_65", "age_45_to_under_65">>, <<"age_65_to_under_80", "age_65_to_under_80">>, <<"age_80_and_above", "age_80_and_above">>, <<"age_0_to_under_7", "age_0_to_under_7">>, <<"age_60_and_above", "age_60_and_above">>}],
    [line |-> 407, path |-> <<"districts", "residents", "unemployed">>, name |-> "get_residents_unemployed_by_districts",
     params |-> <<>>,
     fields |-> {<<"year", "year">>, <<"district_id", "district_id">>, <<"residents", "residents">>}],
    [line |-> 415, path |-> <<"{district_id}", "residents", "unemployed">>, name |-> "get_residents_unemployed_by_district",
     params |-> <<<<"district_id", "int">>>>,
     fields |-> {<<"year", "year">>, <<"district_id", "district_id">>, <<"residents", "residents">>}],
    [line |-> 424, path |-> <<"districts", "residents", "unemployed", "categorized">>, name |-> "get_residents_unemployed_by_categories_by_districts",
     params |-> <<>>,
     fields |-> {<<"year", "year">>, <<"district_id", "district_id">>, <<"unemployed_total", "unemployed_total">>, <<"percentage_of_total", "percentage_of_total">>, <<"percentage_sgb_iii", "percentage_sgb_iii">>, <<"percentage_sgb_ii", "percentage_sgb_ii">>, <<"percentage_foreign_citizenship", "percentage_foreign_citizenship">>, <<"percentage_female", "percentage_female">>, <<"percentage_age_under_25", "percentage_age_under_25">>}],
    [line |-> 440, path |-> <<"{district_id}", "residents", "unemployed", "categorized">>, name |-> "get_residents_unemployed_by_categories_by_district",
     params |-> <<<<"district_id", "int">>>>,
     fields |-> {<<"year", "year">>, <<"district_id", "district_id">>, <<"unemployed_total", "unemployed_total">>, <<"percentage_of_total", "percentage_of_total">>, <<"percentage_sgb_iii", "percentage_sgb_iii">>, <<"percentage_sgb_ii", "percentage_sgb_ii">>, <<"percentage_foreign_citizenship", "percentage_foreign_citizenship">>, <<"percentage_female", "percentage_female">>, <<"percentage_age_under_25", "percentage_age_under_25">>}],
    [line |-> 457, path |-> <<"districts", "residents", "beneficiaries">>, name |-> "get_residents_beneficiaries_by_districts",
     params |-> <<>>,
     fields |-> {<<"year", "year">>, <<"district_id", "district_id">>, <<"residents", "residents">>}],
    [line |-> 465, path |-> <<"{district_id}", "residents", "beneficiaries">>, name |-> "get_residents_beneficiaries_by_district",
     params |-> <<<<"district_id", "int">>>>,
     fields |-> {<<"year", "year">>, <<"district_id", "district_id">>, <<"residents", "residents">>}],
    [line |-> 474, path |-> <<"districts", "residents", "beneficiaries", "inactive">>, name |-> "get_residents_beneficiaries_inactive_by_districts",
     params |-> <<>>,
     fields |-> {<<"year", "year">>, <<"district_id", "district_id">>, <<"residents", "residents">>}],
    [line |-> 482, path |-> <<"{district_id}", "residents", "beneficiaries", "inactive">>, name |-> "get_residents_beneficiaries_inactive_by_district",
     params |-> <<<<"district_id", "int">>>>,
     fields |-> {<<"year", "year">>, <<"district_id", "district_id">>, <<"residents", "residents">>}],
    [line |-> 491, path |-> <<"districts", "residents", "beneficiaries", "characteristics">>, name |-> "get_residents_beneficiaries_by_characteristics_by_districts",
     params |-> <<>>,
     fields |-> {<<"year", "year">>, <<"district_id", "district_id">>, <<"unemployability", "unemployability">>, <<"employability", "employability">>, <<"percentage_females", "percentage_females">>, <<"percentage_single_parents", "percentage_single_parents">>, <<"percentage_foreign_citizenship", "percentage_foreign_citizenship">>}],
    [line |-> 505, path |-> <<"{district_id}", "residents", "beneficiaries", "characteristics">>, name |-> "get_residents_beneficiaries_by_characteristics_by_district",
     params |-> <<<<"district_id", "int">>>>,
     fields |-> {<<"year", "year">>, <<"district_id", "district_id">>, <<"unemployability", "unemployability">>, <<"employability", "employability">>, <<"percentage_females", "percentage_females">>, <<"percentage_single_parents", "percentage_single_parents">>, <<"percentage_foreign_citizenship", "percentage_foreign_citizenship">>}],
    [line |-> 520, path |-> <<"districts", "residents", "beneficiaries", "age15tounder65">>, name |-> "get_residents_beneficiaries_age15tounder65_by_districts",
     params |-> <<>>,
     fields |-> {<<"year", "year">>, <<"district_id", "district_id">>, <<"percentage_of_total_residents", "percentage_of_total_residents">>, <<"employable_with_benefits", "employable_with_benefits">>, <<"unemployment_benefits", "unemployment_benefits">>, <<"basic_income", "basic_income">>, <<"assisting_benefits", "assisting_benefits">>}],
    [line |-> 534, path |-> <<"{district_id}", "residents", "beneficiaries", "age15tounder65">>, name |-> "get_residents_beneficiaries_age15tounder65_by_district",
     params |-> <<<<"district_id", "int">>>>,
     fields |-> {<<"year", "year">>, <<"district_id", "district_id">>, <<"percentage_of_total_residents", "percentage_of_total_residents">>, <<"employable_with_benefits", "employable_with_benefits">>, <<"unemployment_benefits", "unemployment_benefits">>, <<"basic_income", "basic_income">>, <<"assisting_benefits", "assisting_benefits">>}],
    [line |-> 549, path |-> <<"districts", "residents", "migration", "background">>, name |-> "get_residents_migration_background_by_districts",
     params |-> <<>>,
     fields |-> {<<"year", "year">>, <<"district_id", "district_id">>, <<"foreign_citizenship", "foreign_citizenship">>, <<"german_citizenship", "german_citizenship">>}],
    [line |-> 560, path |-> <<"{district_id}", "residents", "migration", "background">>, name |-> "get_residents_migration_background_by_district",
     params |-> <<<<"district_id", "int">>>>,
     fields |-> {<<"year", "year">>, <<"district_id", "district_id">>, <<"foreign_citizenship", "foreign_citizenship">>, <<"german_citizenship", "german_citizenship">>}],
    [line |-> 572, path |-> <<"districts", "residents", "housing", "assistance">>, name |-> "get_residents_housing_assistance_by_districts",
     params |-> <<>>,
     fields |-> {<<"year", "year">>, <<"district_id", "district_id">>, <<"general_consulting", "general_consulting">>, <<"notices_of_rent_arrears", "notices_of_rent_arrears">>, <<"termination_rent_arrears", "termination_rent_arrears">>, <<"termination_for_conduct", "termination_for_conduct">>, <<"action_for_eviction", "action_for_eviction">>, <<"eviction_notice", "eviction_notice">>, <<"eviction_carried", "eviction_carried">>}],
    [line |-> 587, path |-> <<"{district_id}", "residents", "housing", "assistance">>, name |-> "get_residents_housing_assistance_by_district",
     params |-> <<<<"district_id", "int">>>>,
     fields |-> {<<"year", "year">>, <<"district_id", "district_id">>, <<"general_consulting", "general_consulting">>, <<"notices_of_rent_arrears", "notices_of_rent_arrears">>, <<"termination_rent_arrears", "termination_rent_arrears">>, <<"termination_for_conduct", "termination_for_conduct">>, <<"action_for_eviction", "action_for_eviction">>, <<"eviction_notice", "eviction_notice">>, <<"eviction_carried", "eviction_carried">>}],
    [line |-> 603, path |-> <<"districts", "residents", "housing", "benefit">>, name |-> "get_residents_housing_benefit_by_district",
     params |-> <<>>,
     fields |-> {<<"year", "year">>, <<"district_id", "district_id">>, <<"residents", "residents">>}],
    [line |-> 612, path |-> <<"districts", "residents", "housing", "benefit">>, name |-> "get_residents_housing_benefit_by_districts",
     params |-> <<>>,
     fields |-> {<<"year", "year">>, <<"district_id", "district_id">>, <<"residents", "residents">>}],
    [line |-> 620, path |-> <<"{district_id}", "residents", "housing", "benefit">>, name |-> "get_residents_housing_benefit_by_district",
     params |-> <<<<"district_id", "int">>>>,
     fields |-> {<<"year", "year">>, <<"district_id", "district_id">>, <<"residents", "residents">>}],
    [line |-> 630, path |-> <<"districts", "residents", "risk", "homelessness">>, name |-> "get_residents_risk_homelessness_by_districts",
     params |-> <<>>,
     fields |-> {<<"year", "year">>, <<"district_id", "district_id">>, <<"residents", "residents">>}],
    [line |-> 638, path |-> <<"{district_id}", "residents", "risk", "homelessness">>, name |-> "get_residents_risk_homelessness_by_district",
     params |-> <<<<"district_id", "int">>>>,
     fields |-> {<<"year", "year">>, <<"district_id", "district_id">>, <<"residents", "residents">>}]
  >>

\* ------------------------------------------------------------------------
\* Routing: APIRouter(prefix=...) and app.include_router(...)
\* ------------------------------------------------------------------------
router1 == [prefix |-> <<"demographics", "v1">>, routes |-> router1_routes]

router2 == [prefix |-> <<"accidents", "v1">>, routes |-> router2_routes]

router3 == [prefix |-> <<"monuments", "v1">>, routes |-> router3_routes]

router4 == [prefix |-> <<"biotope", "v1">>, routes |-> router4_routes]

router5 == [prefix |-> <<"alkis", "v1">>, routes |-> router5_routes]

\* include_router appends the router's routes, each under the router's prefix
include_router(routes, router) ==
  routes \o [i \in 1..Len(router.routes) |->
               [router.routes[i] EXCEPT !.path = router.prefix \o @]]

\* the application's route list: the routes decorated on app, then the
\* routers in the order of the include_router calls (router3 is never included)
app ==
  include_router(include_router(include_router(include_router(
    app_routes, router5), router4), router1), router2)

\* a path parameter segment matches any non-empty segment ([^/]+)
IsPathParam(seg) == seg = "{district_id}"

Match(pattern, path) ==
  /\ Len(pattern) = Len(path)
  /\ \A i \in 1..Len(pattern) :
       IF IsPathParam(pattern[i]) THEN path[i] # "" ELSE pattern[i] = path[i]

Lowest(S) == CHOOSE x \in S : \A y \in S : x <= y

\* Dispatch taking the last route that matches
Dispatch_last(path) ==
  LET hits == {i \in 1..Len(app) : Match(app[i].path, path)}
  IN  IF hits = {} THEN 0 ELSE CHOOSE x \in hits : \A y \in hits : y <= x

\* index in app of the first route that matches, 0 when none does
Dispatch(path) ==
  LET hits == {i \in 1..Len(app) : Match(app[i].path, path)}
  IN  IF hits = {} THEN 0 ELSE Lowest(hits)

\* ------------------------------------------------------------------------
\* Parameter validation from the handlers' type annotations
\* ------------------------------------------------------------------------
\* texts that parse as int, with their value
int_of == ("1" :> 1) @@ ("3" :> 3)

\* texts that parse as float, with their value in tenths
float_of == ("1" :> 10) @@ ("3" :> 30) @@ ("1.5" :> 15)

\* the raw text of parameter p: a path segment for a path parameter, else the
\* query string's value; "" stands for a parameter that is absent
RawArg(route, r, p) ==
  LET at == {i \in 1..Len(route.path) : route.path[i] = "{" \o p \o "}"}
  IN  IF at # {} THEN r.path[Lowest(at)]
      ELSE IF p \in DOMAIN r.query THEN r.query[p]
      ELSE ""

\* ParamOk without the int annotation's check
ParamOk_untyped(type, raw) ==
  /\ raw # ""
  /\ (type = "float" => raw \in DOMAIN float_of)

ParamOk(type, raw) ==
  /\ raw # ""
  /\ CASE type = "int" -> raw \in DOMAIN int_of
       [] type = "float" -> raw \in DOMAIN float_of
       [] OTHER -> TRUE

Valid(route, r) ==
  \A j \in 1..Len(route.params) :
     ParamOk(route.params[j][2], RawArg(route, r, route.params[j][1]))

Parse(type, raw) ==
  CASE type = "int" -> [int |-> int_of[raw]]
    [] type = "float" -> [float |-> float_of[raw]]
    [] OTHER -> [str |-> raw]

\* the handler's keyword arguments after validation
Args(route, r) ==
  [j \in 1..Len(route.params) |->
     Parse(route.params[j][2], RawArg(route, r, route.params[j][1]))]

\* ------------------------------------------------------------------------
\* The store and the service module (service.py is not part of the sources:
\* each service function is modelled as one query over a table of the
\* snapshot, filtered by its parameter)
\* ------------------------------------------------------------------------
\* the stored rows a snapshot draws from: k is the row's id or district id,
\* v stands for its other columns
Entries == {[k |-> 1, v |-> 10], [k |-> 3, v |-> 30], [k |-> 3, v |-> 31]}

name_of == (1 :> "Mitte") @@ (3 :> "Altstadt")

RECURSIVE SeqsUpTo(_, _)
\* the sequences over S of length at most n
SeqsUpTo(S, n) ==
  IF n = 0 THEN {<<>>}
  ELSE LET shorter == SeqsUpTo(S, n - 1)
       IN  shorter \cup {Append(s, x) : s \in {t \in shorter : Len(t) = n - 1}, x \in S}

Snapshots == SeqsUpTo(Entries, MaxRows)

\* the value of column c in the row stored as entry e
Col(e, c) ==
  IF c \in {"id", "district_id"} THEN e.k
  ELSE IF c \in {"name", "label"} THEN name_of[e.k]
  ELSE e.v

Row(cols, e) == [c \in cols |-> Col(e, c)]

\* the SELECT list of a route's query: the attributes its handler reads
Columns(route) ==
  IF route.fields # {} THEN {f[2] : f \in route.fields}
  ELSE IF route.name = "get_district" THEN {"id", "name"}
  ELSE {"id", "name", "value"}

\* the WHERE clause: the entries a route's query selects for its arguments
Selects(args, e) ==
  \A j \in 1..Len(args) :
     CASE DOMAIN args[j] = {"int"} -> e.k = args[j].int
       [] DOMAIN args[j] = {"float"} -> e.k * 10 = args[j].float
       [] OTHER -> name_of[e.k] = args[j].str

\* Python's None: an object without attributes
None == <<>>

VARIABLE
  lacks     \* the columns the SELECT lists of the service's queries leave out

\* the column sets a faulty service may leave out: the name a district is
\* shown under, or the year of a count
DriftedColumns == {{"name"}, {"year"}}


\* service.<name>(session, ...): the rows in the order of the table;
\* service.get_district gives one row or None
service(route, args, table) ==
  LET sel  == SelectSeq(table, LAMBDA e : Selects(args, e))
      rows == [i \in 1..Len(sel) |-> Row(Columns(route) \ lacks, sel[i])]
  IN  IF route.name = "get_district"
      THEN (IF rows = <<>> THEN None ELSE rows[1])
      ELSE rows

\* ------------------------------------------------------------------------
\* What a handler hands back to the framework
\* ------------------------------------------------------------------------
JSONResponse(kind, items) ==
  [tag |-> "JSONResponse", status |-> 200, kind |-> kind, items |-> items]

Return(items) ==
  [tag |-> "return", status |-> 200, kind |-> "array", items |-> items]

HTTPException(status_code, detail) ==
  [tag |-> "HTTPException", status |-> status_code, kind |-> "object",
   items |-> <<[detail |-> detail]>>]

Raise(exc) == [tag |-> "raise", status |-> 0, kind |-> exc, items |-> <<>>]

\* jsonable_encoder on a list of row mappings: a list of dicts with the same
\* keys, each value encoded (int and str are JSON values already)
jsonable_encoder(rows) ==
  [i \in 1..Len(rows) |-> [c \in DOMAIN rows[i] |-> rows[i][c]]]

\* schema(out1=r.attr1, ...): one shape instance from a row's attributes
schema(fields, r) ==
  [o \in {f[1] : f \in fields} |->
     r[(CHOOSE f \in fields : f[1] = o)[2]]]

HasAttrs(fields, r) == {f[2] : f \in fields} \subseteq DOMAIN r

\* first_or_404 indexing the last row, response[-1]
last_or_404(rows) ==
  LET response == jsonable_encoder(rows)
  IN  IF Len(response) >= 1 THEN JSONResponse("object", <<response[Len(response)]>>)
      ELSE HTTPException(404, "Not found")

\* ------------------------------------------------------------------------
\* Handlers (the part after the awaited service call)
\* ------------------------------------------------------------------------
\* try: return JSONResponse(content=response[0])
\* except IndexError: raise HTTPException(404, 'Not found')
first_or_404(rows) ==
  LET response == jsonable_encoder(rows)
  IN  IF Len(response) >= 1 THEN JSONResponse("object", <<response[1]>>)
      ELSE HTTPException(404, "Not found")

\* return JSONResponse(content=result[0])
first_unguarded(rows) ==
  LET result == jsonable_encoder(rows)
  IN  IF Len(result) >= 1 THEN JSONResponse("object", <<result[1]>>)
      ELSE Raise("IndexError")

get_parcel_meta(rows) == first_or_404(rows)

get_biotop_meta(rows) == first_or_404(rows)

get_biotop_origin(rows) == first_or_404(rows)

get_monuments(rows) == first_unguarded(rows)

get_accident_meta(rows) == first_unguarded(rows)

get_accident_details_by_city(rows) == first_unguarded(rows)

get_district_details(rows) == first_unguarded(rows)

get_demographics_meta(rows) == JSONResponse("array", jsonable_encoder(rows))

District == {<<"district_id", "id">>, <<"district_name", "name">>}

\* get_district answering with the bare shape instead of a list
get_district_bare(row) ==
  IF HasAttrs(District, row) THEN JSONResponse("object", <<schema(District, row)>>)
  ELSE HTTPException(404, "Not found")

get_district(row) ==
  IF HasAttrs(District, row) THEN Return(<<schema(District, row)>>)
  ELSE HTTPException(404, "Not found")

\* list_of_schema treating no rows as not found
list_of_schema_404(fields, rows) ==
  IF rows = <<>> THEN HTTPException(404, "Not found")
  ELSE Return([i \in 1..Len(rows) |-> schema(fields, rows[i])])

\* list_of_schema building the list back to front
list_of_schema_reversed(fields, rows) ==
  Return([i \in 1..Len(rows) |-> schema(fields, rows[Len(rows) + 1 - i])])

\* return [schema(...) for r in rows]
list_of_schema(fields, rows) ==
  IF \A i \in 1..Len(rows) : HasAttrs(fields, rows[i])
  THEN Return([i \in 1..Len(rows) |-> schema(fields, rows[i])])
  ELSE Raise("AttributeError")

Handler(route, result) ==
  CASE route.name = "get_parcel_meta" -> get_parcel_meta(result)
    [] route.name = "get_biotop_meta" -> get_biotop_meta(result)
    [] route.name = "get_biotop_origin" -> get_biotop_origin(result)
    [] route.name = "get_monuments" -> get_monuments(result)
    [] route.name = "get_accident_meta" -> get_accident_meta(result)
    [] route.name = "get_accident_details_by_city" -> get_accident_details_by_city(result)
    [] route.name = "get_demographics_meta" -> get_demographics_meta(result)
    [] route.name = "get_district_details" -> get_district_details(result)
    [] route.name = "get_district" -> get_district(result)
    [] OTHER -> list_of_schema(route.fields, result)

\* ------------------------------------------------------------------------
\* The framework's answer to what the endpoint did
\* ------------------------------------------------------------------------
Response(status, kind, items) == [status |-> status, kind |-> kind, items |-> items]

NoResponse == Response(0, "none", <<>>)

\* an exception no handler is registered for becomes a plain 500
Respond(outcome) ==
  IF outcome.tag = "raise" THEN Response(500, "text", <<>>)
  ELSE Response(outcome.status, outcome.kind, outcome.items)

\* no route matches the path
RouterNotFound == Response(404, "object", <<[detail |-> "Not Found"]>>)

\* RequestValidationError
Unprocessable == Response(422, "object", <<[detail |-> "validation error"]>>)

\* routes whose endpoint has no session dependency
home_redirect == Response(307, "redirect", <<[location |-> "/docs"]>>)

swagger_ui_html == Response(200, "html", <<>>)

NoSession(route) == route.name \in {"home_redirect", "swagger_ui_html"}

\* ------------------------------------------------------------------------
\* app/services/monument.py: get_monument_by_object_id
\* ------------------------------------------------------------------------
\* rows of sh_monuments (id is the key; the selected columns other than
\* object_id are carried by designation)
MonumentRows ==
  {[id |-> 1, object_id |-> 2, designation |-> "Mill"],
   [id |-> 2, object_id |-> 1, designation |-> "Gate"],
   [id |-> 3, object_id |-> 3, designation |-> "Barn"]}

\* rows of sh_monument_reason
ReasonRows ==
  {[id |-> 1, label |-> "Fire damage"], [id |-> 2, label |-> "Historic facade"]}

\* rows of sh_monument_x_reason
LinkRows == [monument_id : {1, 2}, reason_id : {1, 2}]

\* the snapshots of the three tables; sh_monument_x_reason in physical order
MonumentSnapshots ==
  [sh_monuments : SUBSET MonumentRows,
   sh_monument_reason : SUBSET ReasonRows,
   sh_monument_x_reason : SeqsUpTo(LinkRows, MaxLinks)]

NoTables ==
  [sh_monuments |-> {}, sh_monument_reason |-> {}, sh_monument_x_reason |-> <<>>]

\* the orders in which the store may enumerate n rows
Orders(n) ==
  {o \in [1..n -> 1..n] : \A a, b \in 1..n : a # b => o[a] # o[b]}

RECURSIVE string_agg(_, _)
\* string_agg(label, sep) over the labels in the order they are fed to it
string_agg(labels, sep) ==
  IF Len(labels) = 1 THEN labels[1]
  ELSE labels[1] \o sep \o string_agg(Tail(labels), sep)

\* sh_monument_x_reason AS mxr JOIN sh_monument_reason AS mr
\* ON mxr.reason_id = mr.id, the links enumerated in the order ord
joined(t, ord) ==
  LET links == [n \in 1..Len(ord) |-> t.sh_monument_x_reason[ord[n]]]
      kept  == SelectSeq(links,
                 LAMBDA l : \E mr \in t.sh_monument_reason : mr.id = l.reason_id)
  IN  [n \in 1..Len(kept) |->
         [monument_id |-> kept[n].monument_id,
          label |-> (CHOOSE mr \in t.sh_monument_reason :
                       mr.id = kept[n].reason_id).label]]

RECURSIVE Distinct(_)
\* the values of a sequence, each once, in the order of first appearance
Distinct(s) ==
  IF s = <<>> THEN <<>>
  ELSE <<s[1]>> \o Distinct(SelectSeq(Tail(s), LAMBDA x : x # s[1]))

RECURSIVE Concat(_)
\* the concatenation of a sequence of sequences
Concat(ss) == IF ss = <<>> THEN <<>> ELSE ss[1] \o Concat(Tail(ss))

RECURSIVE AsList(_)
\* the elements of a set, as a list
AsList(S) ==
  IF S = {} THEN <<>>
  ELSE LET r == CHOOSE x \in S : TRUE IN <<r>> \o AsList(S \ {r})

\* monument_reasons without GROUP BY: one row per joined row
monument_reasons_ungrouped(t, ord) ==
  LET j == joined(t, ord)
  IN  [n \in 1..Len(j) |->
         [monument_id |-> j[n].monument_id, reason_labels |-> j[n].label]]

\* WITH monument_reasons AS (SELECT mxr.monument_id, string_agg(mr.label, ', ')
\* AS reason_labels ... GROUP BY mxr.monument_id): one row per monument_id
monument_reasons(t, ord) ==
  LET j    == joined(t, ord)
      keys == Distinct([n \in 1..Len(j) |-> j[n].monument_id])
      of(g) == SelectSeq(j, LAMBDA x : x.monument_id = g)
  IN  [n \in 1..Len(keys) |->
         [monument_id |-> keys[n],
          reason_labels |->
            string_agg([k \in 1..Len(of(keys[n])) |-> of(keys[n])[k].label], ", ")]]

\* SQL NULL in a text column
NULL == "NULL"

\* one m of sh_monuments LEFT JOIN monument_reasons AS r ON m.id = r.monument_id
left_join(m, cte) ==
  LET rs == SelectSeq(cte, LAMBDA r : r.monument_id = m.id)
  IN  IF rs = <<>>
      THEN <<[object_id |-> m.object_id, designation |-> m.designation,
              monument_reason |-> NULL]>>
      ELSE [n \in 1..Len(rs) |->
              [object_id |-> m.object_id, designation |-> m.designation,
               monument_reason |-> rs[n].reason_labels]]

\* SELECT ... FROM sh_monuments AS m LEFT JOIN monument_reasons AS r
\* ON m.id = r.monument_id WHERE m.id = :q
stmt(t, ord, q) ==
  LET ms  == AsList({m \in t.sh_monuments : m.id = q})
      cte == monument_reasons(t, ord)
  IN  Concat([n \in 1..Len(ms) |-> left_join(ms[n], cte)])

\* rows = result.mappings().all(); return [dict(row) for row in rows]
materialize(result) == [n \in 1..Len(result) |-> [c \in DOMAIN result[n] |-> result[n][c]]]

\* the text handed to text(): every line of it but the last, and its last
\* line, which names the placeholder
stmt_select == "WITH monument_reasons AS (...) SELECT ... FROM sh_monuments AS m LEFT JOIN monument_reasons AS mr ON m.id = mr.monument_id"
stmt_where == "WHERE m.id = :q"

\* the values callers pass as they are written when bound: the integers,
\* and a text that is not one
int_text == (1 :> "1") @@ (2 :> "2") @@ (3 :> "3")
text_int == ("1" :> 1) @@ ("2" :> 2) @@ ("3" :> 3)
TextArguments == {"1; DROP TABLE x"}

\* a statement as the session receives it: its text and its bound values
Statement(sql_text, params) == [text |-> sql_text, params |-> params]
NoStatement == Statement("", [q |-> ""])

\* the object_id spliced into the text instead of being bound
bindparams_spliced(v) == Statement(stmt_select \o " WHERE m.id = " \o v, [q |-> v])

\* stmt = text('...'); sql = stmt.bindparams(q=object_id)
bindparams(v) == Statement(stmt_select \o " " \o stmt_where, [q |-> v])

\* result = await session.execute(sql) on the rows the statement selects
get_monument_by_object_id(t, ord, object_id) == materialize(stmt(t, ord, object_id))

\* ------------------------------------------------------------------------
\* State
\* ------------------------------------------------------------------------
VARIABLES
  db,       \* the data snapshot: the rows of a table, in the store's order
            \* (lacks, declared with the service, belongs here)
  pc,       \* per request slot: "idle", "handler" (awaiting the service), "exit"
  req,      \* per slot: the request being handled
  resp,     \* per slot: the response, once it is determined
  result,   \* per slot: what the service call returned
  fault,    \* per slot: the store failed while executing the query
  nexec,    \* per slot: statements executed against the store
  nacq,     \* per slot: sessions acquired through get_session
  open,     \* the slots whose session is open
  served    \* per slot: status of the request that ended last, 0 before any

http_vars == <<db, lacks, pc, req, resp, result, fault, nexec, nacq, open, served>>

VARIABLES
  tables,    \* the snapshot of the three monument tables
  mon_pc,    \* "idle", "awaiting" (in session.execute), "returned", "raised"
  mon_q,     \* the object_id argument of the call
  mon_ord,   \* the order in which the store enumerated sh_monument_x_reason
  mon_rows,  \* the list the call returned
  mon_exec,  \* statements the call has executed
  mon_sql    \* the statement the call handed to session.execute

mon_vars == <<tables, mon_pc, mon_q, mon_ord, mon_rows, mon_exec, mon_sql>>

VARIABLES
  boot,      \* the process: "starting", "begun", "dropped", "created", "serving"
  catalog,   \* the schema objects that exist in the store
  boot_log   \* what this start has done to the store so far

life_vars == <<boot, catalog, boot_log>>

VARIABLE
  probe      \* a path handed to the router, and the route that took it

route_vars == <<probe>>

vars == <<http_vars, mon_vars, life_vars, route_vars>>

Slots == 1..MaxInFlight

Req(path, query) == [path |-> path, query |-> query]

NoRequest == Req(<<>>, <<>>)

\* the requests clients send
RequestSet ==
  { Req(<<"">>, <<>>),
    Req(<<"alkis", "v1", "parcel">>, [lat |-> "3", lng |-> "3"]),
    Req(<<"alkis", "v1", "parcel">>, [lat |-> "north", lng |-> "1"]),
    Req(<<"alkis", "v1", "parcel">>, [lat |-> "1.5"]),
    Req(<<"biotope", "v1", "point">>, [lat |-> "3", lng |-> "3"]),
    Req(<<"biotope", "v1", "origin">>, [code |-> "Altstadt"]),
    Req(<<"monuments", "v1", "details">>, [object_id |-> "1"]),
    Req(<<"monuments", "v1", "details">>, [object_id |-> "one"]),
    Req(<<"accidents", "v1", "meta">>, <<>>),
    Req(<<"accidents", "v1", "details">>, [query |-> "Mitte"]),
    Req(<<"demographics", "v1", "meta">>, <<>>),
    Req(<<"demographics", "v1", "details">>, <<>>),
    Req(<<"demographics", "v1", "districts", "">>, <<>>),
    Req(<<"demographics", "v1", "1">>, <<>>),
    Req(<<"demographics", "v1", "3">>, <<>>),
    Req(<<"demographics", "v1", "three">>, <<>>),
    Req(<<"demographics", "v1", "household", "types">>, <<>>),
    Req(<<"demographics", "v1", "districts", "residents">>, <<>>),
    Req(<<"demographics", "v1", "3", "residents">>, <<>>),
    Req(<<"demographics", "v1", "1", "residents">>, <<>>),
    Req(<<"demographics", "v1", "residents", "agegroups">>, <<>>),
    Req(<<"demographics", "v1", "districts", "residents", "housing", "benefit">>, <<>>),
    Req(<<"demographics", "v1", "3", "residents", "births">>, <<>>) }

\* the requests by what routing and validation make of them
UnroutedRequests == {r \in RequestSet : Dispatch(r.path) = 0}

StaticRequests ==
  {r \in RequestSet \ UnroutedRequests : NoSession(app[Dispatch(r.path)])}

InvalidRequests ==
  {r \in RequestSet \ (UnroutedRequests \cup StaticRequests) :
     ~Valid(app[Dispatch(r.path)], r)}

ValidRequests ==
  RequestSet \ (UnroutedRequests \cup StaticRequests \cup InvalidRequests)

\* the route a slot's request was dispatched to
RouteOf(i) == app[Dispatch(req[i].path)]

\* ------------------------------------------------------------------------
\* get_session: async with base.async_session() as session: yield session
\* ------------------------------------------------------------------------
get_session_enter(sessions, i) == sessions \cup {i}

\* get_session closing the session only after a response that is no error
get_session_exit_on_success(sessions, i, response) ==
  IF response.status >= 500 THEN sessions ELSE sessions \ {i}

\* the async-with block closes the session however the request left it
get_session_exit(sessions, i, response) == sessions \ {i}

\* ------------------------------------------------------------------------
\* No path handed to the router yet
\* ------------------------------------------------------------------------
NoProbe == [path |-> <<>>, hit |-> 0]

\* ------------------------------------------------------------------------
\* Process start: init_schemas
\* ------------------------------------------------------------------------
\* the tables the queries of the service read: what the store holds when the
\* process starts
StoreSchema == {"sh_monuments", "sh_monument_reason", "sh_monument_x_reason"}

\* a declarative base on which every table of the store is declared
Base_with_models == [metadata |-> [tables |-> StoreSchema]]

\* Base = declarative_base(): no class of the module derives from it and
\* the module imports nothing after creating it, so its metadata has no table
Base == [metadata |-> [tables |-> {}]]

\* MetaData.drop_all and MetaData.create_all act on the tables of the metadata
drop_all(objects, metadata) == objects \ metadata.tables
create_all(objects, metadata) == objects \cup metadata.tables

LifeInit ==
  /\ boot = "starting"
  /\ catalog = StoreSchema
  /\ boot_log = <<>>

\* async with base.engine.begin() as conn: the transaction opens
EngineBegin ==
  /\ boot = "starting"
  /\ boot' = "begun"
  /\ boot_log' = Append(boot_log, "begin")
  /\ UNCHANGED <<catalog, http_vars, mon_vars, route_vars>>

\* await conn.run_sync(Base.metadata.drop_all)
RunDropAll ==
  /\ boot = "begun"
  /\ boot' = "dropped"
  /\ catalog' = drop_all(catalog, Base.metadata)
  /\ boot_log' = Append(boot_log, "drop_all")
  /\ UNCHANGED <<http_vars, mon_vars, route_vars>>

\* await conn.run_sync(Base.metadata.create_all)
RunCreateAll ==
  /\ boot = "dropped"
  /\ boot' = "created"
  /\ catalog' = create_all(catalog, Base.metadata)
  /\ boot_log' = Append(boot_log, "create_all")
  /\ UNCHANGED <<http_vars, mon_vars, route_vars>>

\* the async-with block ends: the transaction commits, the startup event is
\* over and the application takes requests
EngineCommit ==
  /\ boot = "created"
  /\ boot' = "serving"
  /\ boot_log' = Append(boot_log, "commit")
  /\ UNCHANGED <<catalog, http_vars, mon_vars, route_vars>>

\* the process is stopped while no request is in flight and started again
Restart ==
  /\ boot = "serving"
  /\ \A i \in DOMAIN pc : pc[i] = "idle"
  /\ boot' = "starting"
  /\ boot_log' = <<>>
  /\ served' = [i \in DOMAIN pc |-> 0]
  /\ UNCHANGED <<db, lacks, pc, req, resp, result, fault, nexec, nacq, open>>
  /\ UNCHANGED <<catalog, mon_vars, route_vars>>

\* ------------------------------------------------------------------------
\* Actions
\* ------------------------------------------------------------------------
MonInit ==
  /\ mon_pc = "idle"
  /\ mon_q = 0
  /\ mon_ord = <<>>
  /\ mon_rows = <<>>
  /\ mon_exec = 0
  /\ mon_sql = NoStatement

HttpInit ==
  /\ pc = [i \in Slots |-> "idle"]
  /\ req = [i \in Slots |-> NoRequest]
  /\ resp = [i \in Slots |-> NoResponse]
  /\ result = [i \in Slots |-> None]
  /\ fault = [i \in Slots |-> FALSE]
  /\ nexec = [i \in Slots |-> 0]
  /\ nacq = [i \in Slots |-> 0]
  /\ open = {}
  /\ served = [i \in Slots |-> 0]

Init ==
  /\ LifeInit
  /\ probe = NoProbe
  /\ db \in Snapshots
  /\ lacks = {}
  /\ HttpInit
  /\ tables = NoTables
  /\ MonInit

Arrive(i, r) ==
  /\ boot = "serving"
  /\ pc[i] = "idle"
  /\ req' = [req EXCEPT ![i] = r]
  /\ served' = [served EXCEPT ![i] = 0]
  /\ UNCHANGED <<db, lacks, result, fault, nexec>>
  /\ UNCHANGED <<mon_vars, life_vars, route_vars>>

\* no route matches: the router answers 404 itself
Unrouted(i, r) ==
  /\ r \in UnroutedRequests
  /\ Arrive(i, r)
  /\ resp' = [resp EXCEPT ![i] = RouterNotFound]
  /\ pc' = [pc EXCEPT ![i] = "exit"]
  /\ UNCHANGED <<nacq, open>>

\* home_redirect and swagger_ui_html: no dependency, no query
Static(i, r) ==
  /\ r \in StaticRequests
  /\ Arrive(i, r)
  /\ resp' = [resp EXCEPT ![i] =
                IF app[Dispatch(r.path)].name = "home_redirect"
                THEN home_redirect ELSE swagger_ui_html]
  /\ pc' = [pc EXCEPT ![i] = "exit"]
  /\ UNCHANGED <<nacq, open>>

\* the dependency is solved, then a parameter fails validation: the endpoint
\* is not called
Invalid(i, r) ==
  /\ r \in InvalidRequests
  /\ Arrive(i, r)
  /\ open' = get_session_enter(open, i)
  /\ nacq' = [nacq EXCEPT ![i] = @ + 1]
  /\ resp' = [resp EXCEPT ![i] = Unprocessable]
  /\ pc' = [pc EXCEPT ![i] = "exit"]

\* the dependency is solved, the parameters are valid: the endpoint starts and
\* awaits its service function
Receive(i, r) ==
  /\ r \in ValidRequests
  /\ Arrive(i, r)
  /\ open' = get_session_enter(open, i)
  /\ nacq' = [nacq EXCEPT ![i] = @ + 1]
  /\ pc' = [pc EXCEPT ![i] = "handler"]
  /\ UNCHANGED resp

\* Execute on a request kept in a module-level variable that every arriving
\* request overwrites: the endpoint works on the request of the highest
\* slot that awaits its service
Execute_shared(i) ==
  /\ pc[i] = "handler"
  /\ LET j     == CHOOSE j \in DOMAIN pc :
                     /\ pc[j] = "handler"
                     /\ \A k \in DOMAIN pc : pc[k] = "handler" => k <= j
         route == RouteOf(j)
         rows  == service(route, Args(route, req[j]), db)
     IN  /\ result' = [result EXCEPT ![i] = rows]
         /\ resp' = [resp EXCEPT ![i] = Respond(Handler(route, rows))]
  /\ nexec' = [nexec EXCEPT ![i] = @ + 1]
  /\ pc' = [pc EXCEPT ![i] = "exit"]
  /\ UNCHANGED <<db, lacks, req, fault, nacq, open, served>>
  /\ UNCHANGED <<mon_vars, life_vars, route_vars>>

\* Execute with the service awaited a second time
Execute_twice(i) ==
  /\ pc[i] = "handler"
  /\ LET route == RouteOf(i)
         rows  == service(route, Args(route, req[i]), db)
     IN  /\ result' = [result EXCEPT ![i] = rows]
         /\ resp' = [resp EXCEPT ![i] = Respond(Handler(route, rows))]
  /\ nexec' = [nexec EXCEPT ![i] = @ + 2]
  /\ pc' = [pc EXCEPT ![i] = "exit"]
  /\ UNCHANGED <<db, lacks, req, fault, nacq, open, served>>
  /\ UNCHANGED <<mon_vars, life_vars, route_vars>>

\* rows = await service.<name>(session, ...) returns; the rest of the
\* endpoint runs without another await
Execute(i) ==
  /\ pc[i] = "handler"
  /\ LET route == RouteOf(i)
         rows  == service(route, Args(route, req[i]), db)
     IN  /\ result' = [result EXCEPT ![i] = rows]
         /\ resp' = [resp EXCEPT ![i] = Respond(Handler(route, rows))]
  /\ nexec' = [nexec EXCEPT ![i] = @ + 1]
  /\ pc' = [pc EXCEPT ![i] = "exit"]
  /\ UNCHANGED <<db, lacks, req, fault, nacq, open, served>>
  /\ UNCHANGED <<mon_vars, life_vars, route_vars>>

\* ExecuteFails under an except clause that answers 404
ExecuteFails_caught(i) ==
  /\ pc[i] = "handler"
  /\ fault' = [fault EXCEPT ![i] = TRUE]
  /\ resp' = [resp EXCEPT ![i] = Respond(HTTPException(404, "Not found"))]
  /\ nexec' = [nexec EXCEPT ![i] = @ + 1]
  /\ pc' = [pc EXCEPT ![i] = "exit"]
  /\ UNCHANGED <<db, lacks, req, result, nacq, open, served>>
  /\ UNCHANGED <<mon_vars, life_vars, route_vars>>

\* the awaited service call raises the store's error; no except clause of an
\* endpoint encloses the call
ExecuteFails(i) ==
  /\ pc[i] = "handler"
  /\ fault' = [fault EXCEPT ![i] = TRUE]
  /\ resp' = [resp EXCEPT ![i] = Respond(Raise("StoreError"))]
  /\ nexec' = [nexec EXCEPT ![i] = @ + 1]
  /\ pc' = [pc EXCEPT ![i] = "exit"]
  /\ UNCHANGED <<db, lacks, req, result, nacq, open, served>>
  /\ UNCHANGED <<mon_vars, life_vars, route_vars>>

\* the response goes out and the dependency's exit code runs
Finish(i) ==
  /\ pc[i] = "exit"
  /\ open' = get_session_exit(open, i, resp[i])
  /\ served' = [served EXCEPT ![i] = resp[i].status]
  /\ pc' = [pc EXCEPT ![i] = "idle"]
  /\ req' = [req EXCEPT ![i] = NoRequest]
  /\ resp' = [resp EXCEPT ![i] = NoResponse]
  /\ result' = [result EXCEPT ![i] = None]
  /\ fault' = [fault EXCEPT ![i] = FALSE]
  /\ nexec' = [nexec EXCEPT ![i] = 0]
  /\ nacq' = [nacq EXCEPT ![i] = 0]
  /\ UNCHANGED <<db, lacks>>
  /\ UNCHANGED <<mon_vars, life_vars, route_vars>>

Next ==
  \/ \E i \in Slots, r \in UnroutedRequests : Unrouted(i, r)
  \/ \E i \in Slots, r \in StaticRequests : Static(i, r)
  \/ \E i \in Slots, r \in InvalidRequests : Invalid(i, r)
  \/ \E i \in Slots, r \in ValidRequests : Receive(i, r)
  \/ \E i \in Slots : Execute(i)
  \/ \E i \in Slots : ExecuteFails(i)
  \/ \E i \in Slots : Finish(i)
  \/ EngineBegin
  \/ RunDropAll
  \/ RunCreateAll
  \/ EngineCommit
  \/ Restart

Spec == Init /\ [][Next]_vars

\* ------------------------------------------------------------------------
\* The same requests against a service whose queries leave a column out
\* ------------------------------------------------------------------------
InitDrift ==
  /\ LifeInit
  /\ probe = NoProbe
  /\ db \in {s \in Snapshots : Len(s) <= 1}
  /\ lacks \in DriftedColumns
  /\ HttpInit
  /\ tables = NoTables
  /\ MonInit

SpecDrift == InitDrift /\ [][Next]_vars

\* ------------------------------------------------------------------------
\* Requests for districts in flight together
\* ------------------------------------------------------------------------
\* one request more in flight than Spec allows
PairSlots == 1..(MaxInFlight + 1)

\* the requests for get_districts and get_district
PairRequests ==
  { Req(<<"demographics", "v1", "districts", "">>, <<>>),
    Req(<<"demographics", "v1", "1">>, <<>>),
    Req(<<"demographics", "v1", "3">>, <<>>),
    Req(<<"demographics", "v1", "three">>, <<>>) }

InitPair ==
  /\ LifeInit
  /\ probe = NoProbe
  /\ db \in Snapshots
  /\ lacks = {}
  /\ pc = [i \in PairSlots |-> "idle"]
  /\ req = [i \in PairSlots |-> NoRequest]
  /\ resp = [i \in PairSlots |-> NoResponse]
  /\ result = [i \in PairSlots |-> None]
  /\ fault = [i \in PairSlots |-> FALSE]
  /\ nexec = [i \in PairSlots |-> 0]
  /\ nacq = [i \in PairSlots |-> 0]
  /\ open = {}
  /\ served = [i \in PairSlots |-> 0]
  /\ tables = NoTables
  /\ MonInit

NextPair ==
  \/ \E i \in PairSlots, r \in PairRequests \cap InvalidRequests : Invalid(i, r)
  \/ \E i \in PairSlots, r \in PairRequests \cap ValidRequests : Receive(i, r)
  \/ \E i \in PairSlots : Execute(i)
  \/ \E i \in PairSlots : ExecuteFails(i)
  \/ \E i \in PairSlots : Finish(i)
  \/ EngineBegin
  \/ RunDropAll
  \/ RunCreateAll
  \/ EngineCommit
  \/ Restart

SpecPair == InitPair /\ [][NextPair]_vars

\* ------------------------------------------------------------------------
\* The router asked for the paths of the demographics routes
\* ------------------------------------------------------------------------
\* the patterns registered on router1, under its prefix
DemographicsPatterns ==
  {router1.prefix \o router1_routes[n].path : n \in 1..Len(router1_routes)}

\* the patterns without a path parameter
StaticDemographicsPaths ==
  {p \in DemographicsPatterns : \A n \in 1..Len(p) : ~IsPathParam(p[n])}

\* what clients write where a pattern has {district_id}
DistrictTexts == {"1", "3", "three"}

\* the paths clients ask for: every static path, and every pattern with a
\* path parameter filled in
ProbePaths ==
  StaticDemographicsPaths \cup
  {[n \in 1..Len(p) |-> IF IsPathParam(p[n]) THEN d ELSE p[n]] :
     p \in DemographicsPatterns \ StaticDemographicsPaths, d \in DistrictTexts}

\* the router walks its routes for the path of a request
Probe(p) ==
  /\ probe' = [path |-> p, hit |-> Dispatch(p)]
  /\ UNCHANGED <<http_vars, mon_vars, life_vars>>

InitRoute ==
  /\ LifeInit
  /\ probe = NoProbe
  /\ db \in Snapshots
  /\ lacks = {}
  /\ HttpInit
  /\ tables = NoTables
  /\ MonInit

NextRoute == \E p \in ProbePaths : Probe(p)

SpecRoute == InitRoute /\ [][NextRoute]_vars

\* ------------------------------------------------------------------------
\* Calls of get_monument_by_object_id on a snapshot of the monument tables
\* ------------------------------------------------------------------------
\* the arguments callers pass
ObjectIds == {1, 2, 3}

\* the function is called: the statement is bound and handed to the session
Call(q) ==
  /\ mon_pc = "idle"
  /\ mon_pc' = "awaiting"
  /\ mon_q' = q
  /\ mon_sql' = bindparams(int_text[q])
  /\ mon_ord' = <<>>
  /\ mon_rows' = <<>>
  /\ mon_exec' = 0
  /\ UNCHANGED tables
  /\ UNCHANGED <<http_vars, life_vars, route_vars>>

\* the function is called with a text that is not an integer (the annotation
\* object_id: int is not enforced): the text is bound like any value
CallText(v) ==
  /\ mon_pc = "idle"
  /\ mon_pc' = "awaiting"
  /\ mon_q' = 0
  /\ mon_sql' = bindparams(v)
  /\ mon_ord' = <<>>
  /\ mon_rows' = <<>>
  /\ mon_exec' = 0
  /\ UNCHANGED tables
  /\ UNCHANGED <<http_vars, life_vars, route_vars>>

\* session.execute returns: the bound value is an integer the store compares
\* with m.id, and the store ran the statement, enumerating
\* sh_monument_x_reason in an order of its choosing
Returns(ord) ==
  /\ mon_pc = "awaiting"
  /\ mon_sql.params.q \in DOMAIN text_int
  /\ mon_ord' = ord
  /\ mon_rows' = get_monument_by_object_id(tables, ord, text_int[mon_sql.params.q])
  /\ mon_exec' = mon_exec + 1
  /\ mon_pc' = "returned"
  /\ UNCHANGED <<tables, mon_q, mon_sql>>
  /\ UNCHANGED <<http_vars, life_vars, route_vars>>

\* session.execute raises: the function has no except clause
Raises ==
  /\ mon_pc = "awaiting"
  /\ mon_exec' = mon_exec + 1
  /\ mon_pc' = "raised"
  /\ UNCHANGED <<tables, mon_q, mon_ord, mon_rows, mon_sql>>
  /\ UNCHANGED <<http_vars, life_vars, route_vars>>

\* the caller goes on to its next call
Again ==
  /\ mon_pc \in {"returned", "raised"}
  /\ mon_pc' = "idle"
  /\ UNCHANGED <<tables, mon_q, mon_ord, mon_rows, mon_exec, mon_sql>>
  /\ UNCHANGED <<http_vars, life_vars, route_vars>>

InitMonument ==
  /\ LifeInit
  /\ probe = NoProbe
  /\ db = <<>>
  /\ lacks = {}
  /\ HttpInit
  /\ tables \in MonumentSnapshots
  /\ MonInit

NextMonument ==
  \/ \E q \in ObjectIds : Call(q)
  \/ \E v \in TextArguments : CallText(v)
  \/ \E ord \in Orders(Len(tables.sh_monument_x_reason)) : Returns(ord)
  \/ Raises
  \/ Again

SpecMonument == InitMonument /\ [][NextMonument]_vars

\* ------------------------------------------------------------------------
\* Vocabulary of the properties
\* ------------------------------------------------------------------------
\* slot i holds a request whose endpoint ran: routed, valid, with a session
Handled(i) == pc[i] = "exit" /\ req[i] \in ValidRequests

\* the endpoint of slot i got the rows of its query back
Answered(i) == Handled(i) /\ ~fault[i]

\* endpoints that answer with the first row of their query
IndexingEndpoints ==
  {"get_parcel_meta", "get_biotop_meta", "get_biotop_origin", "get_monuments",
   "get_accident_meta", "get_accident_details_by_city", "get_district_details"}

SingularEndpoints == IndexingEndpoints \cup {"get_district"}

\* endpoints that answer with every row of their query
Collection(route) == route.name = "get_demographics_meta" \/ route.fields # {}

\* C1: a singular endpoint whose query returns zero rows answers 404 with the
\* message 'Not found', never 200 or another status
C1_SingularEmptyIs404 ==
  \A i \in Slots :
     (Answered(i) /\ RouteOf(i).name \in SingularEndpoints /\ result[i] = <<>>)
       => resp[i] = Response(404, "object", <<[detail |-> "Not found"]>>)

\* C2: a collection endpoint whose query returns zero rows answers 200 with
\* an empty JSON array, never 404
C2_CollectionEmptyIs200 ==
  \A i \in Slots :
     (Answered(i) /\ Collection(RouteOf(i)) /\ result[i] = <<>>)
       => resp[i] = Response(200, "array", <<>>)

\* a district id without a district, in a snapshot that has districts, gives
\* an empty array
C2_Witness ==
  \E i \in Slots :
     /\ Answered(i)
     /\ req[i].path = <<"demographics", "v1", "1", "residents">>
     /\ db # <<>>
     /\ result[i] = <<>>
     /\ resp[i].status = 200

\* the district id a get_district request names, and whether the store has it
AsksDistrict(i) == Answered(i) /\ RouteOf(i).name = "get_district"

DistrictId(i) == int_of[req[i].path[3]]

Stored(id) == \E n \in 1..Len(db) : db[n].k = id

DistrictObject(id) == [district_id |-> id, district_name |-> name_of[id]]

\* C3 as stated: an existing district id is answered 200 with the one JSON
\* object {district_id, district_name}, not with an array around it
C3_DistrictIsObject ==
  \A i \in Slots :
     (AsksDistrict(i) /\ Stored(DistrictId(i)))
       => resp[i] = Response(200, "object", <<DistrictObject(DistrictId(i))>>)

\* C3 amended: an existing district id is answered 200 with a JSON array of
\* exactly one element, the object {district_id, district_name} of the row
C3_DistrictIsOneElementArray ==
  \A i \in Slots :
     (AsksDistrict(i) /\ Stored(DistrictId(i)))
       => resp[i] = Response(200, "array", <<DistrictObject(DistrictId(i))>>)

\* district 3, 'Altstadt', is asked for and is stored
C3_Witness ==
  \E i \in Slots :
     /\ AsksDistrict(i)
     /\ DistrictId(i) = 3
     /\ Stored(3)
     /\ resp[i].items = <<[district_id |-> 3, district_name |-> "Altstadt"]>>

MappedFrom(route, item, row) ==
  IF route.name = "get_demographics_meta" THEN item = row
  ELSE /\ DOMAIN item = {f[1] : f \in route.fields}
       /\ \A f \in route.fields : item[f[1]] = row[f[2]]

\* C5: a collection response has one element per row, element n mapped from
\* row n, in the order the store returned the rows
C5_RowForRowInOrder ==
  \A i \in Slots :
     (Answered(i) /\ Collection(RouteOf(i)))
       => /\ resp[i].status = 200
          /\ resp[i].kind = "array"
          /\ Len(resp[i].items) = Len(result[i])
          /\ \A n \in 1..Len(result[i]) :
                MappedFrom(RouteOf(i), resp[i].items[n], result[i][n])

\* two different rows of one district were listed
C5_Witness ==
  \E i \in Slots :
     /\ Answered(i)
     /\ RouteOf(i).name = "get_residents_by_district"
     /\ Len(result[i]) >= 2
     /\ result[i][1] # result[i][2]
     /\ Len(resp[i].items) = 2

\* a typed parameter of the request is absent or is not of its type
Malformed(r) ==
  \/ r.path[1] = "demographics" /\ Len(r.path) >= 3
       /\ r.path[3] \notin {"1", "3", "meta", "details", "districts", "household", "residents"}
  \/ r.path[1] = "monuments"
       /\ ~("object_id" \in DOMAIN r.query /\ r.query.object_id \in {"1", "3"})
  \/ r.path[Len(r.path)] = "parcel"
       /\ ~({"lat", "lng"} \subseteq DOMAIN r.query
             /\ r.query.lat \in {"1", "3", "1.5"} /\ r.query.lng \in {"1", "3", "1.5"})

C7_StoreFailureIs5xx ==
  \A i \in Slots :
     fault[i] => /\ pc[i] = "exit"
                 /\ nexec[i] = 1
                 /\ resp[i].status \in 500..599

\* the store failed under get_district, whose except clause answers 404
C7_Witness ==
  \E i \in Slots :
     /\ fault[i]
     /\ RouteOf(i).name = "get_district"
     /\ resp[i].status = 500

MonumentOneStatement ==
  /\ mon_pc \in {"returned", "raised"} => mon_exec = 1
  /\ mon_pc = "awaiting" => mon_exec = 0

\* the labels of the reasons of monument m, in the order the store enumerated
\* the rows of sh_monument_x_reason that reference it
ReasonLabelsOf(m) ==
  LET links == [n \in 1..Len(mon_ord) |-> tables.sh_monument_x_reason[mon_ord[n]]]
      mine  == SelectSeq(links,
                 LAMBDA l : /\ l.monument_id = m.id
                            /\ \E mr \in tables.sh_monument_reason : mr.id = l.reason_id)
  IN  [n \in 1..Len(mine) |->
         (CHOOSE mr \in tables.sh_monument_reason : mr.id = mine[n].reason_id).label]

RECURSIVE CommaSeparated(_)
\* the labels written one after the other with ', ' between two of them
CommaSeparated(labels) ==
  IF Len(labels) = 1 THEN labels[1]
  ELSE CommaSeparated(SubSeq(labels, 1, Len(labels) - 1)) \o ", " \o labels[Len(labels)]

\* C10: the call returns one row for the monument it selects, however many
\* rows of sh_monument_x_reason reference it, and the row's monument_reason is
\* the labels of all its reasons joined with ', '
C10_OneRowReasonsJoined ==
  mon_pc = "returned" =>
    LET ms == {m \in tables.sh_monuments : m.id = mon_q}
    IN  /\ Len(mon_rows) <= 1
        /\ Len(mon_rows) = Cardinality(ms)
        /\ \A m \in ms :
             /\ mon_rows[1].object_id = m.object_id
             /\ mon_rows[1].monument_reason =
                  IF ReasonLabelsOf(m) = <<>> THEN NULL
                  ELSE CommaSeparated(ReasonLabelsOf(m))

\* two rows of sh_monument_x_reason reference the monument and its one row
\* reads 'Fire damage, Historic facade'
C10_Witness ==
  /\ mon_pc = "returned"
  /\ Len(tables.sh_monument_x_reason) = 2
  /\ \A n \in 1..2 : tables.sh_monument_x_reason[n].monument_id = mon_q
  /\ Len(mon_rows) = 1
  /\ mon_rows[1].monument_reason = "Fire damage, Historic facade"

\* C11: on a fixed snapshot every execution of the monument aggregation
\* returns the same rows with the same monument_reason, in whatever order
\* the store enumerates the rows of sh_monument_x_reason
C11_SameStringInEveryOrder ==
  mon_pc = "returned" =>
    \A ord \in Orders(Len(tables.sh_monument_x_reason)) :
       get_monument_by_object_id(tables, ord, mon_q) = mon_rows

Reads(route) ==
  IF route.name = "get_district" THEN {f[2] : f \in District}
  ELSE {f[2] : f \in route.fields}

\* the rows the service returned to slot i
Returned(i) ==
  IF RouteOf(i).name = "get_district"
  THEN (IF result[i] = None THEN <<>> ELSE <<result[i]>>)
  ELSE result[i]

\* C13: a returned row that lacks a field the endpoint reads ends the
\* request as a server error, never as 200 and never as 404; a 404 means the
\* query returned no row
C13_MissingFieldIsServerError ==
  \A i \in Slots :
     Answered(i) =>
       /\ (\E n \in 1..Len(Returned(i)) :
              ~(Reads(RouteOf(i)) \subseteq DOMAIN Returned(i)[n]))
            => resp[i].status = 500
       /\ resp[i].status = 404 => Returned(i) = <<>>

\* the response a request gets when it is the only one in flight on the
\* snapshot: the store failed under it, or its endpoint answered its rows
Alone(r, failed) ==
  LET route == app[Dispatch(r.path)]
  IN  IF r \in InvalidRequests THEN Unprocessable
      ELSE IF failed THEN Respond(Raise("StoreError"))
      ELSE Respond(Handler(route, service(route, Args(route, r), db)))

\* C14: requests in flight together are independent. In every interleaving
\* no step changes the snapshot or anything of a request other than the one
\* that takes the step, each request in flight holds a session of its own,
\* and its response is the one it gets when run alone
C14_Independent ==
  [][/\ db' = db
     /\ \E i \in PairSlots :
          \A j \in PairSlots \ {i} :
             /\ <<pc[j], req[j], resp[j], result[j], fault[j], nexec[j], nacq[j]>>'
                  = <<pc[j], req[j], resp[j], result[j], fault[j], nexec[j], nacq[j]>>
             /\ (j \in open') <=> (j \in open)
     /\ \A i \in PairSlots :
          /\ pc'[i] # "idle" => i \in open' /\ nacq'[i] = 1
          /\ pc'[i] = "idle" => i \notin open'
          /\ pc'[i] = "exit" => resp'[i] = Alone(req'[i], fault'[i])]_vars

\* two different requests are in flight together, each with its own answer:
\* the list of districts and the one district asked for
C14_Witness ==
  /\ \A i \in {1, 2} : pc[i] = "exit" /\ ~fault[i] /\ i \in open
  /\ RouteOf(1).name = "get_district"
  /\ RouteOf(2).name = "get_districts"
  /\ resp[1].status = 200 /\ resp[2].status = 200
  /\ resp[1] # resp[2]

\* C15: the lookup is by object id: the call returns rows only for monuments
\* whose object_id equals the value it was called with, and a row for every
\* such monument
C15_LookupByObjectId ==
  mon_pc = "returned" =>
    /\ \A n \in 1..Len(mon_rows) : mon_rows[n].object_id = mon_q
    /\ \A m \in tables.sh_monuments :
          m.object_id = mon_q =>
            \E n \in 1..Len(mon_rows) : mon_rows[n].designation = m.designation

\* what a start does, in order: one transaction around drop_all and create_all
StartupSteps == <<"begin", "drop_all", "create_all", "commit">>

\* every start runs drop_all and then create_all inside one transaction of
\* the engine, and no request is handled before the transaction has ended
StartupInOrder ==
  /\ Len(boot_log) <= Len(StartupSteps)
  /\ boot_log = SubSeq(StartupSteps, 1, Len(boot_log))
  /\ boot = "serving" <=> boot_log = StartupSteps
  /\ \A i \in Slots : pc[i] # "idle" \/ served[i] # 0 => boot = "serving"

\* C16 as stated: every start runs drop_all then create_all in one
\* transaction before any request is handled, and drop_all destroys the
\* schema objects the store had
C16_StartDestroysSchema ==
  /\ StartupInOrder
  /\ boot = "dropped" => catalog \cap StoreSchema = {}

\* C16 as the code has it: every start runs drop_all then create_all in one
\* transaction before any request is handled; the two act on the tables of
\* Base.metadata, which has none, so the schema objects of the store are
\* there after drop_all and at every other moment
C16_StartLeavesSchema ==
  /\ StartupInOrder
  /\ catalog = StoreSchema

\* a request is answered by a process that was started, with the tables
\* still in the store
C16_Witness ==
  /\ boot = "serving"
  /\ boot_log = StartupSteps
  /\ pc[1] = "exit" /\ resp[1].status = 200
  /\ catalog = StoreSchema

\* the routes registered for path p itself, in registration order
Registrations(p) == {n \in 1..Len(app) : app[n].path = p}

\* the answer of route n to a request without parameters on the snapshot
Serves(n) == Respond(Handler(app[n], service(app[n], <<>>, db)))

HousingBenefit ==
  <<"demographics", "v1", "districts", "residents", "housing", "benefit">>

\* C17: dispatch is first-match in registration order. A static demographics
\* path goes to the route registered for that very path, never to a
\* '/{district_id}...' route; the path registered twice goes to its first
\* registration, and its two registrations answer alike
C17_StaticPathsKeepTheirHandler ==
  /\ probe # NoProbe =>
       /\ probe.hit # 0
       /\ Match(app[probe.hit].path, probe.path)
       /\ \A n \in 1..(probe.hit - 1) : ~Match(app[n].path, probe.path)
  /\ probe.path \in StaticDemographicsPaths =>
       /\ app[probe.hit].path = probe.path
       /\ \A n \in 1..Len(probe.path) : ~IsPathParam(app[probe.hit].path[n])
       /\ probe.hit = Lowest(Registrations(probe.path))
  /\ probe.path = HousingBenefit =>
       /\ Cardinality(Registrations(HousingBenefit)) = 2
       /\ app[probe.hit].line = 603
       /\ \A n \in Registrations(HousingBenefit) : Serves(n) = Serves(probe.hit)

\* '/districts/residents', which '/{district_id}/residents' matches too, went
\* to get_residents_by_districts
C17_Witness ==
  /\ probe.path = <<"demographics", "v1", "districts", "residents">>
  /\ app[probe.hit].name = "get_residents_by_districts"
  /\ \E n \in 1..Len(app) :
        /\ n > probe.hit
        /\ Match(app[n].path, probe.path)
        /\ app[n].name = "get_residents_by_district"

====
